---- MODULE Spec2Model ----
(***************************************************************************)
(* Model of hq's filter parser (src/filter/parser.rs).                     *)
(*                                                                         *)
(* parse_filter runs the pest grammar over the input and then reduces the  *)
(* top-level pairs to a Vec<Field>.  The grammar file itself               *)
(* (filter/grammar.pest) is modelled from the written grammar:             *)
(*                                                                         *)
(*   filter        ::= segment+                                            *)
(*   segment       ::= "." (name | quoted_name) qualifier*                 *)
(*   qualifier     ::= "{" quoted_name "}" | "[" numeric_index "]"         *)
(*   name          ::= (ALPHA | "_") (ALPHA | DIGIT | "_")*                *)
(*   quoted_name   ::= '"' (any char except '"')* '"'                      *)
(*   numeric_index ::= DIGIT+                                              *)
(*                                                                         *)
(* with the quotes of a quoted name or label outside the token, and with   *)
(* the end-of-input token as the last top-level pair.                      *)
(*                                                                         *)
(* A string is a sequence of one-character strings.  Spans are byte        *)
(* offsets, start inclusive and end exclusive, counted from 0.  A usize is *)
(* UsizeBits wide and held as 16-bit limbs, most significant first.        *)
(***************************************************************************)
EXTENDS Integers, Sequences, FiniteSets, TLC

VARIABLES input, pc, pairs, pi, ii, name, labels, index, fields, result

vars == <<input, pc, pairs, pi, ii, name, labels, index, fields, result>>

(***************************************************************************)
(* Bounds                                                                  *)
(***************************************************************************)
\* number of pieces an input is concatenated from
MaxPieces == 3

(***************************************************************************)
(* usize                                                                   *)
(***************************************************************************)
\* usize::BITS on a 64-bit target
UsizeBits == 64

LimbBits == 16

LimbBase == 2 ^ LimbBits

NumLimbs == UsizeBits \div LimbBits

\* usize::MAX
UsizeMax == [k \in 1..NumLimbs |-> LimbBase - 1]

\* the usize of a small number
Usize(n) == [k \in 1..NumLimbs |-> IF k = NumLimbs THEN n ELSE 0]

\* v * m + a over the limbs from limb k down, with the carry out of the top
RECURSIVE LimbsMulAdd(_, _, _, _)
LimbsMulAdd(v, m, a, k) ==
  IF k = 0 THEN [val |-> v, carry |-> a]
  ELSE LET t == v[k] * m + a
       IN  LimbsMulAdd([v EXCEPT ![k] = t % LimbBase], m, t \div LimbBase,
                       k - 1)

\* usize::checked_mul
CheckedMul(v, m) ==
  LET r == LimbsMulAdd(v, m, 0, NumLimbs)
  IN  [ok |-> r.carry = 0, val |-> r.val]

\* usize::checked_add
CheckedAdd(v, a) ==
  LET r == LimbsMulAdd(v, 1, a, NumLimbs)
  IN  [ok |-> r.carry = 0, val |-> r.val]

(***************************************************************************)
(* Characters                                                              *)
(***************************************************************************)
Dot == "."

Quote == "\""

LBrace == "{"

RBrace == "}"

LBracket == "["

RBracket == "]"

Underscore == "_"

Alpha ==
  {"a", "b", "c", "d", "e", "f", "g", "h", "i", "j", "k", "l", "m",
   "n", "o", "p", "q", "r", "s", "t", "u", "v", "w", "x", "y", "z",
   "A", "B", "C", "D", "E", "F", "G", "H", "I", "J", "K", "L", "M",
   "N", "O", "P", "Q", "R", "S", "T", "U", "V", "W", "X", "Y", "Z"}

Digit == {"0", "1", "2", "3", "4", "5", "6", "7", "8", "9"}

NameStart == Alpha \cup {Underscore}

NameRest == Alpha \cup Digit \cup {Underscore}

\* the text fragments inputs are built from
Pieces ==
  { <<Dot>>, <<"a">>, <<Underscore>>, <<"0">>, <<Quote>>, <<LBracket>>,
    <<Dot, "a">>,
    <<Dot, Quote, Quote>>,
    <<Dot, Quote, Dot, "q", Quote>>,
    <<LBrace, Quote, "x", Quote, RBrace>>,
    <<LBrace, Quote, "y", Quote, RBrace>>,
    <<LBracket, "1", RBracket>>,
    <<LBracket, "9", "9", RBracket>>,
    <<LBracket, "a", RBracket>>,
    \* usize::MAX and usize::MAX + 1
    <<LBracket, "1", "8", "4", "4", "6", "7", "4", "4", "0", "7", "3", "7",
      "0", "9", "5", "5", "1", "6", "1", "5", RBracket>>,
    <<LBracket, "1", "8", "4", "4", "6", "7", "4", "4", "0", "7", "3", "7",
      "0", "9", "5", "5", "1", "6", "1", "6", RBracket>> }

RECURSIVE Concat(_)
Concat(ps) == IF ps = <<>> THEN <<>> ELSE Head(ps) \o Concat(Tail(ps))

Inputs ==
  UNION { { Concat(ps) : ps \in [1..n -> Pieces] } : n \in 0..MaxPieces }

(***************************************************************************)
(* Option<usize> and Result                                                *)
(***************************************************************************)
None == [tag |-> "None"]

Some(i) == [tag |-> "Some", val |-> i]

Ok(v) == [kind |-> "Ok", value |-> v]

Err(e) == [kind |-> "Err", error |-> e]

(***************************************************************************)
(* Grammar: the parse tree pest builds for Rule::filter                    *)
(***************************************************************************)
\* a token pair: its rule, the text of its span, and the span
Node(rule, s, from, to) ==
  [rule |-> rule, text |-> SubSeq(s, from, to - 1),
   start |-> from - 1, end |-> to - 1]

\* first position at or after p whose character is not in class
ScanWhile(s, p, class) ==
  CHOOSE q \in p..(Len(s) + 1) :
    /\ \A k \in p..(q - 1) : s[k] \in class
    /\ (q = Len(s) + 1 \/ s[q] \notin class)

\* first position at or after p holding a double quote
ScanQuoted(s, p) ==
  CHOOSE q \in p..(Len(s) + 1) :
    /\ \A k \in p..(q - 1) : s[k] # Quote
    /\ (q = Len(s) + 1 \/ s[q] = Quote)

At(s, p, c) == p <= Len(s) /\ s[p] = c

\* a failure whose furthest failed rule attempt starts at position p
Fail(p) == [ok |-> FALSE, pos |-> p - 1]

\* qualifier*, from position p, added to the children acc.  A qualifier
\* that breaks off on a literal leaves the segment ended at p, where
\* neither another segment nor the end of input matches; one that breaks
\* off on numeric_index fails that rule at p + 1.
RECURSIVE MatchQualifiers(_, _, _)
MatchQualifiers(s, p, acc) ==
  IF At(s, p, LBrace)
  THEN IF ~At(s, p + 1, Quote)
       THEN Fail(p)
       ELSE LET q == ScanQuoted(s, p + 2)
            IN  IF ~At(s, q, Quote) THEN Fail(p)
                ELSE IF ~At(s, q + 1, RBrace) THEN Fail(p)
                ELSE MatchQualifiers(s, q + 2,
                       Append(acc, Node("label", s, p + 2, q)))
  ELSE IF At(s, p, LBracket)
  THEN LET q == ScanWhile(s, p + 1, Digit)
       IN  IF q = p + 1 THEN Fail(p + 1)
           ELSE IF ~At(s, q, RBracket) THEN Fail(p)
           ELSE MatchQualifiers(s, q + 1,
                  Append(acc, Node("numeric_index", s, p + 1, q)))
  ELSE [ok |-> TRUE, next |-> p, inner |-> acc]

\* segment ::= "." (name | quoted_name) qualifier*.  Without the dot the
\* segment rule fails at p; after it the name rule fails at p + 1, also
\* when a quoted name is left open.
MatchSegment(s, p) ==
  IF ~At(s, p, Dot) THEN Fail(p)
  ELSE IF p + 1 <= Len(s) /\ s[p + 1] \in NameStart
  THEN LET q == ScanWhile(s, p + 2, NameRest)
       IN  MatchQualifiers(s, q, <<Node("name", s, p + 1, q)>>)
  ELSE IF At(s, p + 1, Quote)
  THEN LET q == ScanQuoted(s, p + 2)
       IN  IF ~At(s, q, Quote) THEN Fail(p + 1)
           ELSE MatchQualifiers(s, q + 1,
                  <<Node("quoted_name", s, p + 2, q)>>)
  ELSE Fail(p + 1)

\* the end-of-input token: a pair without children
EOI(s) ==
  [rule |-> "EOI", inner |-> <<>>, start |-> Len(s), end |-> Len(s)]

\* segment+ up to the end of the input, then the end-of-input token
RECURSIVE MatchSegments(_, _, _)
MatchSegments(s, p, acc) ==
  LET m == MatchSegment(s, p)
  IN  IF ~m.ok THEN m
      ELSE LET segs == Append(acc, [rule |-> "segment", inner |-> m.inner,
                                    start |-> p - 1, end |-> m.next - 1])
           IN  IF m.next = Len(s) + 1
               THEN [ok |-> TRUE, pairs |-> Append(segs, EOI(s))]
               ELSE MatchSegments(s, m.next, segs)

\* Filter::parse(Rule::filter, input)
FilterParse(s) == MatchSegments(s, 1, <<>>)

(***************************************************************************)
(* str::parse::<usize>                                                     *)
(***************************************************************************)
DigitVal(c) ==
  CASE c = "0" -> 0 [] c = "1" -> 1 [] c = "2" -> 2 [] c = "3" -> 3
    [] c = "4" -> 4 [] c = "5" -> 5 [] c = "6" -> 6 [] c = "7" -> 7
    [] c = "8" -> 8 [] c = "9" -> 9

Plus == "+"

\* variant: the digit is added with wrapping_add instead of checked_add
RECURSIVE ParseDigitsWrappingAdd(_, _)
ParseDigitsWrappingAdd(text, acc) ==
  IF text = <<>> THEN [ok |-> TRUE, val |-> acc]
  ELSE IF Head(text) \notin Digit THEN [ok |-> FALSE]
  ELSE LET m == CheckedMul(acc, 10)
       IN  IF ~m.ok THEN [ok |-> FALSE]
           ELSE ParseDigitsWrappingAdd(Tail(text),
                  CheckedAdd(m.val, DigitVal(Head(text))).val)

\* checked_mul(10) then checked_add(digit), left to right
RECURSIVE ParseDigits(_, _)
ParseDigits(text, acc) ==
  IF text = <<>> THEN [ok |-> TRUE, val |-> acc]
  ELSE IF Head(text) \notin Digit THEN [ok |-> FALSE]
  ELSE LET m == CheckedMul(acc, 10)
       IN  IF ~m.ok THEN [ok |-> FALSE]
           ELSE LET a == CheckedAdd(m.val, DigitVal(Head(text)))
                IN  IF ~a.ok THEN [ok |-> FALSE]
                    ELSE ParseDigits(Tail(text), a.val)

\* an empty string and a lone sign are errors; one leading "+" is skipped
ParseUsize(text) ==
  IF text = <<>> THEN [ok |-> FALSE]
  ELSE IF Head(text) = Plus
  THEN IF Len(text) = 1 THEN [ok |-> FALSE]
       ELSE ParseDigits(Tail(text), Usize(0))
  ELSE ParseDigits(text, Usize(0))

(***************************************************************************)
(* parse_filter: the reducer                                               *)
(***************************************************************************)
\* variant: a grammar error is swallowed and an empty result returned
OnParseErrorSwallowed(m) == Ok(<<>>)

\* the `?` on Filter::parse: a grammar error is returned as the error
OnParseError(m) ==
  Err([variant |-> "ParsingError", origin |-> "grammar", pos |-> m.pos])

\* Rule::name => inner.as_str().clone_into(&mut name)
OnName(text) == text

\* variant: the quotes are kept in the name
OnQuotedNameWithQuotes(text) == <<Quote>> \o text \o <<Quote>>

\* Rule::quoted_name => inner.as_str().clone_into(&mut name)
OnQuotedName(text) == text

\* variant: the label is put in front
OnLabelPrepend(ls, text) == <<text>> \o ls

\* variant: the label is not recorded
OnLabelDropped(ls, text) == ls

\* Rule::label => labels.push(inner.as_str().to_owned())
OnLabel(ls, text) == Append(ls, text)

\* variant: the first index of a segment is kept
OnNumericIndexKeepFirst(idx, i) == IF idx = None THEN Some(i) ELSE idx

\* Rule::numeric_index, Ok arm: index = Some(i)
OnNumericIndex(idx, i) == Some(i)

\* Rule::numeric_index, else arm
OverflowError(inner) ==
  Err([variant |-> "ParsingError", origin |-> "reducer",
       negatives |-> <<inner.rule>>,
       span |-> <<inner.start, inner.end>>])

\* the `_` arm
NotImplementedError(inner) ==
  Err([variant |-> "CustomError", message |-> "not implemented",
       span |-> <<inner.start, inner.end>>])

\* variant: the Field is pushed whatever its name
EmitFieldAlways(fs, n, ls, idx) ==
  Append(fs, [name |-> n, labels |-> ls, index |-> idx])

\* if !name.is_empty() { fields.push(Field { name, labels, index }) }
EmitField(fs, n, ls, idx) ==
  IF n # <<>>
  THEN Append(fs, [name |-> n, labels |-> ls, index |-> idx])
  ELSE fs

\* the match on inner.as_rule(): the accumulators afterwards, or the error
MatchInner(inner, n, ls, idx) ==
  CASE inner.rule = "name" ->
         [ret |-> FALSE, name |-> OnName(inner.text),
          labels |-> ls, index |-> idx]
    [] inner.rule = "quoted_name" ->
         [ret |-> FALSE, name |-> OnQuotedName(inner.text),
          labels |-> ls, index |-> idx]
    [] inner.rule = "label" ->
         [ret |-> FALSE, name |-> n,
          labels |-> OnLabel(ls, inner.text), index |-> idx]
    [] inner.rule = "numeric_index" ->
         LET r == ParseUsize(inner.text)
         IN  IF r.ok
             THEN [ret |-> FALSE, name |-> n, labels |-> ls,
                   index |-> OnNumericIndex(idx, r.val)]
             ELSE [ret |-> TRUE, err |-> OverflowError(inner)]
    [] OTHER -> [ret |-> TRUE, err |-> NotImplementedError(inner)]

NoResult == [kind |-> "Pending"]

Init ==
  /\ input \in Inputs
  /\ pc = "parse"
  /\ pairs = <<>>
  /\ pi = 1
  /\ ii = 1
  /\ name = <<>>
  /\ labels = <<>>
  /\ index = None
  /\ fields = <<>>
  /\ result = NoResult

\* let pairs = Filter::parse(Rule::filter, input)?;
Parse ==
  /\ pc = "parse"
  /\ LET m == FilterParse(input)
     IN  IF m.ok
         THEN /\ pairs' = m.pairs
              /\ pc' = "pairs"
              /\ result' = result
         ELSE /\ pairs' = pairs
              /\ pc' = "done"
              /\ result' = OnParseError(m)
  /\ UNCHANGED <<input, pi, ii, name, labels, index, fields>>

\* for pair in pairs { fresh name, labels, index; pair.into_inner() }
BeginPair ==
  /\ pc = "pairs"
  /\ pi <= Len(pairs)
  /\ name' = <<>>
  /\ labels' = <<>>
  /\ index' = None
  /\ ii' = 1
  /\ pc' = "inner"
  /\ UNCHANGED <<input, pairs, pi, fields, result>>

\* variant: an error in a child leaves the loops and returns what was
\* accumulated
InnerStepBreak ==
  /\ pc = "inner"
  /\ ii <= Len(pairs[pi].inner)
  /\ LET m == MatchInner(pairs[pi].inner[ii], name, labels, index)
     IN  IF m.ret
         THEN /\ result' = Ok(fields)
              /\ pc' = "done"
              /\ UNCHANGED <<name, labels, index, ii>>
         ELSE /\ name' = m.name
              /\ labels' = m.labels
              /\ index' = m.index
              /\ ii' = ii + 1
              /\ UNCHANGED <<result, pc>>
  /\ UNCHANGED <<input, pairs, pi, fields>>

\* for inner in inner_pairs { match inner.as_rule() { ... } }
InnerStep ==
  /\ pc = "inner"
  /\ ii <= Len(pairs[pi].inner)
  /\ LET m == MatchInner(pairs[pi].inner[ii], name, labels, index)
     IN  IF m.ret
         THEN /\ result' = m.err
              /\ pc' = "done"
              /\ UNCHANGED <<name, labels, index, ii>>
         ELSE /\ name' = m.name
              /\ labels' = m.labels
              /\ index' = m.index
              /\ ii' = ii + 1
              /\ UNCHANGED <<result, pc>>
  /\ UNCHANGED <<input, pairs, pi, fields>>

\* end of the pair's children: push the Field unless the name is empty
EndPair ==
  /\ pc = "inner"
  /\ ii > Len(pairs[pi].inner)
  /\ fields' = EmitField(fields, name, labels, index)
  /\ pi' = pi + 1
  /\ pc' = "pairs"
  /\ UNCHANGED <<input, pairs, ii, name, labels, index, result>>

\* Ok(fields)
ReturnOk ==
  /\ pc = "pairs"
  /\ pi > Len(pairs)
  /\ result' = Ok(fields)
  /\ pc' = "done"
  /\ UNCHANGED <<input, pairs, pi, ii, name, labels, index, fields>>

Next == Parse \/ BeginPair \/ InnerStep \/ EndPair \/ ReturnOk

Spec == Init /\ [][Next]_vars

TypeOK ==
  /\ pc \in {"parse", "pairs", "inner", "done"}
  /\ (result = NoResult) <=> (pc # "done")

(***************************************************************************)
(* What the properties are stated over                                     *)
(***************************************************************************)
Returned == pc = "done"

ReturnedOk == pc = "done" /\ result.kind = "Ok"

ReturnedErr == pc = "done" /\ result.kind = "Err"

\* the number of double quotes before position i
QuotesBefore(s, i) == Cardinality({k \in 1..(i - 1) : s[k] = Quote})

\* position i is not inside a quoted string
Outside(s, i) == QuotesBefore(s, i) % 2 = 0

\* the name or quoted_name child of a segment
NameNode(seg) == seg.inner[1]

\* the children of a segment that have the given rule, in document order
Children(seg, rule) ==
  LET Is(n) == n.rule = rule IN SelectSeq(seg.inner, Is)

\* the texts of the given nodes, in order
Texts(nodes) == [k \in 1..Len(nodes) |-> nodes[k].text]

\* the segment pairs of the parse tree, in document order
Segments(ps) ==
  LET IsSegment(n) == n.rule = "segment" IN SelectSeq(ps, IsSegment)

\* the segments whose name is not empty, in document order
Kept(ps) ==
  LET HasName(seg) == seg.rule = "segment" /\ NameNode(seg).text # <<>>
  IN  SelectSeq(ps, HasName)

\* a digit string without its leading zeros
RECURSIVE StripZeros(_)
StripZeros(text) ==
  IF Len(text) > 1 /\ Head(text) = "0" THEN StripZeros(Tail(text))
  ELSE text

\* the decimal numeral of usize::MAX on a 64-bit target
UsizeMaxDigits ==
  <<"1", "8", "4", "4", "6", "7", "4", "4", "0", "7", "3", "7",
    "0", "9", "5", "5", "1", "6", "1", "5">>

\* numeral a, without leading zeros, denotes more than numeral b
NumeralGreater(a, b) ==
  \/ Len(a) > Len(b)
  \/ /\ Len(a) = Len(b)
     /\ \E k \in 1..Len(a) :
          /\ DigitVal(a[k]) > DigitVal(b[k])
          /\ \A h \in 1..(k - 1) : a[h] = b[h]

\* quotient and remainder of the limbs by ten, by long division
RECURSIVE LimbsDivTen(_, _, _)
LimbsDivTen(v, k, rem) ==
  IF k > Len(v) THEN [quot |-> v, rem |-> rem]
  ELSE LET cur == rem * LimbBase + v[k]
       IN  LimbsDivTen([v EXCEPT ![k] = cur \div 10], k + 1, cur % 10)

DigitChar(d) == CHOOSE c \in Digit : DigitVal(c) = d

\* the decimal numeral of a usize
RECURSIVE ToDecimalAcc(_, _)
ToDecimalAcc(v, acc) ==
  IF \A k \in 1..Len(v) : v[k] = 0
  THEN IF acc = <<>> THEN <<"0">> ELSE acc
  ELSE LET r == LimbsDivTen(v, 1, 0)
       IN  ToDecimalAcc(r.quot, <<DigitChar(r.rem)>> \o acc)

ToDecimal(v) == ToDecimalAcc(v, <<>>)

\* a value of type usize
IsUsize(v) ==
  /\ DOMAIN v = 1..NumLimbs
  /\ \A k \in 1..NumLimbs : v[k] \in 0..(LimbBase - 1)

\* idx is Some of the number the digit string denotes
Denotes(idx, text) ==
  /\ idx.tag = "Some"
  /\ IsUsize(idx.val)
  /\ ToDecimal(idx.val) = StripZeros(text)

\* all numeric_index nodes of the parse tree, in document order
RECURSIVE IndexNodes(_)
IndexNodes(ps) ==
  IF ps = <<>> THEN <<>>
  ELSE Children(Head(ps), "numeric_index") \o IndexNodes(Tail(ps))

Overflows(n) == NumeralGreater(StripZeros(n.text), UsizeMaxDigits)

\* idx is what a segment's index children denote: the last one, if any
IsLastIndex(idx, seg) ==
  LET ns == Children(seg, "numeric_index")
  IN  IF ns = <<>> THEN idx = None ELSE Denotes(idx, ns[Len(ns)].text)

\* f is the Field a segment stands for
IsFieldOf(f, seg) ==
  /\ DOMAIN f = {"name", "labels", "index"}
  /\ f.name = NameNode(seg).text
  /\ f.labels = Texts(Children(seg, "label"))
  /\ IsLastIndex(f.index, seg)

(***************************************************************************)
(* C1                                                                      *)
(***************************************************************************)
\* C1: whenever parse_filter returns Ok, the returned sequence is not
\* empty and has exactly one Field per dotted segment, the i-th Field
\* carrying the name of the i-th segment.
C1_OneFieldPerSegment ==
  ReturnedOk =>
    /\ Len(result.value) > 0
    /\ Len(result.value) = Len(Segments(pairs))
    /\ \A i \in 1..Len(Segments(pairs)) :
         result.value[i].name = NameNode(Segments(pairs)[i]).text

(***************************************************************************)
(* C2                                                                      *)
(***************************************************************************)
EmptyInput(s) == s = <<>>

TrailingDot(s) == s # <<>> /\ s[Len(s)] = Dot /\ Outside(s, Len(s))

UnterminatedQuote(s) == QuotesBefore(s, Len(s) + 1) % 2 = 1

\* a bracket pair outside quotes with a non-digit between the brackets
NonNumericIndex(s) ==
  \E i \in 1..Len(s) : \E j \in (i + 1)..Len(s) :
    /\ s[i] = LBracket
    /\ Outside(s, i)
    /\ s[j] = RBracket
    /\ \A k \in (i + 1)..(j - 1) : s[k] # RBracket
    /\ \E k \in (i + 1)..(j - 1) : s[k] \notin Digit

\* a bare name or a quoted name begins at position i: a name character
\* that does not continue a name, or an opening quote that is not a
\* label's, outside quotes and outside index brackets
NameBeginsAt(s, i) ==
  /\ Outside(s, i)
  /\ \/ /\ s[i] \in NameStart
        /\ i > 1 => s[i - 1] \notin NameRest \cup {LBracket}
     \/ /\ s[i] = Quote
        /\ i > 1 => s[i - 1] # LBrace

\* the input does not begin with a dot, or a later name or quoted name
\* begins without a dot in front of it
MissingLeadingDot(s) ==
  /\ s # <<>>
  /\ \/ s[1] # Dot
     \/ \E i \in 2..Len(s) : NameBeginsAt(s, i) /\ s[i - 1] # Dot

\* C2: parse_filter returns an error for the empty input, for a trailing
\* dot, for an unterminated quote, for a bracketed index that is not all
\* digits and for an input in which any segment, the first or a later
\* one, lacks its leading dot.
C2_MalformedRejected ==
  (/\ Returned
   /\ \/ EmptyInput(input)
      \/ TrailingDot(input)
      \/ UnterminatedQuote(input)
      \/ NonNumericIndex(input)
      \/ MissingLeadingDot(input))
    => result.kind = "Err"

\* .a[1]a: the second segment lacks its dot
C2_Witness ==
  /\ ReturnedErr
  /\ input = <<Dot, "a", LBracket, "1", RBracket, "a">>
  /\ MissingLeadingDot(input)
  /\ input[1] = Dot

(***************************************************************************)
(* C3                                                                      *)
(***************************************************************************)
\* a dot outside quotes directly followed by a digit
DigitAfterDot(s) ==
  \E i \in 1..(Len(s) - 1) :
    s[i] = Dot /\ Outside(s, i) /\ s[i + 1] \in Digit

\* C3: an input with a bare name that begins with a digit is an error, and
\* every bare name of an accepted input begins with a letter or underscore.
C3_DigitNameRejected ==
  /\ (Returned /\ DigitAfterDot(input)) => result.kind = "Err"
  /\ ReturnedOk =>
       \A i \in 1..Len(input) :
         (input[i] = Dot /\ Outside(input, i) /\ i < Len(input)
            /\ input[i + 1] # Quote)
           => input[i + 1] \in NameStart

C3_Witness ==
  /\ ReturnedErr
  /\ input = <<Dot, "0", "a">>
  /\ DigitAfterDot(input)

(***************************************************************************)
(* C4                                                                      *)
(***************************************************************************)
\* the first index node, in document order, whose value is out of range
FirstOverflow(ns) ==
  LET k == CHOOSE k \in 1..Len(ns) :
             Overflows(ns[k]) /\ \A h \in 1..(k - 1) : ~Overflows(ns[h])
  IN  ns[k]

\* C4: an all-digit index above the largest usize makes parse_filter fail
\* with the overflow error at that token's span, the token being the digits
\* between the brackets; an index in a returned Field is the decimal value
\* of an index literal of its segment and is in range.
C4_IndexOverflow ==
  Returned =>
    /\ (\E k \in 1..Len(IndexNodes(pairs)) : Overflows(IndexNodes(pairs)[k]))
         => LET n == FirstOverflow(IndexNodes(pairs))
            IN  /\ result.kind = "Err"
                /\ result.error.origin = "reducer"
                /\ result.error.negatives = <<"numeric_index">>
                /\ result.error.span = <<n.start, n.end>>
                /\ input[n.start] = LBracket
                /\ input[n.end + 1] = RBracket
                /\ SubSeq(input, n.start + 1, n.end) = n.text
    /\ result.kind = "Ok" =>
         /\ Len(result.value) = Len(Kept(pairs))
         /\ \A k \in 1..Len(result.value) :
              LET f == result.value[k]
                  ns == Children(Kept(pairs)[k], "numeric_index")
              IN  IF ns = <<>> THEN f.index = None
                  ELSE \E h \in 1..Len(ns) :
                         /\ ~Overflows(ns[h])
                         /\ Denotes(f.index, ns[h].text)

\* .a[18446744073709551616]
C4_Witness ==
  /\ ReturnedErr
  /\ input = <<Dot, "a", LBracket>> \o SubSeq(UsizeMaxDigits, 1, 19)
               \o <<"6", RBracket>>
  /\ result.error.span = <<3, 23>>

(***************************************************************************)
(* C5                                                                      *)
(***************************************************************************)
\* C5 as written: no returned Field has both labels and an index.
C5_LabelsExcludeIndex ==
  ReturnedOk =>
    \A k \in 1..Len(result.value) :
      result.value[k].labels = <<>> \/ result.value[k].index = None

\* C5 amended: a returned Field has both labels and an index exactly when
\* its segment carries at least one label qualifier and at least one index
\* qualifier; with qualifiers of one kind only, labels is empty or index is
\* None.
C5_LabelsAndIndexIffBothWritten ==
  ReturnedOk =>
    /\ Len(result.value) = Len(Kept(pairs))
    /\ \A k \in 1..Len(result.value) :
         (result.value[k].labels # <<>> /\ result.value[k].index # None)
           <=> (/\ Children(Kept(pairs)[k], "label") # <<>>
                /\ Children(Kept(pairs)[k], "numeric_index") # <<>>)

C5_Witness ==
  /\ ReturnedOk
  /\ input = <<Dot, "a", LBrace, Quote, "x", Quote, RBrace,
               LBracket, "1", RBracket>>
  /\ result.value =
       <<[name |-> <<"a">>, labels |-> << <<"x">> >>, index |-> Some(Usize(1))]>>

(***************************************************************************)
(* C6                                                                      *)
(***************************************************************************)
\* C6: the labels of a returned Field are the texts of its segment's label
\* qualifiers, one entry per qualifier, in written order, each being the
\* characters between the qualifier's two quotes.
C6_LabelsInWrittenOrder ==
  ReturnedOk =>
    /\ Len(result.value) = Len(Kept(pairs))
    /\ \A k \in 1..Len(result.value) :
         LET ns == Children(Kept(pairs)[k], "label")
             ls == result.value[k].labels
         IN  /\ Len(ls) = Len(ns)
             /\ \A j \in 1..Len(ns) :
                  /\ ls[j] = SubSeq(input, ns[j].start + 1, ns[j].end)
                  /\ input[ns[j].start] = Quote
                  /\ input[ns[j].end + 1] = Quote
                  /\ \A c \in 1..Len(ls[j]) : ls[j][c] # Quote
                  /\ j > 1 => ns[j - 1].end < ns[j].start

C6_Witness ==
  /\ ReturnedOk
  /\ input = <<Dot, "a", LBrace, Quote, "x", Quote, RBrace,
               LBrace, Quote, "y", Quote, RBrace>>
  /\ result.value =
       <<[name |-> <<"a">>, labels |-> << <<"x">>, <<"y">> >>,
          index |-> None]>>

(***************************************************************************)
(* C7                                                                      *)
(***************************************************************************)
\* C7: a call ends either with the Fields of every segment of the input or
\* with one error and no Fields; an error in a later segment returns none
\* of the Fields accumulated before it.
C7_AllOrError ==
  Returned =>
    \/ /\ result.kind = "Ok"
       /\ DOMAIN result = {"kind", "value"}
       /\ Len(result.value) = Len(Kept(pairs))
       /\ \A k \in 1..Len(Kept(pairs)) :
            IsFieldOf(result.value[k], Kept(pairs)[k])
       /\ \A k \in 1..Len(IndexNodes(pairs)) :
            ~Overflows(IndexNodes(pairs)[k])
    \/ /\ result.kind = "Err"
       /\ DOMAIN result = {"kind", "error"}

\* an overflow in the second segment, after the first one gave a Field
C7_Witness ==
  /\ ReturnedErr
  /\ Len(fields) > 0
  /\ pi > 1

(***************************************************************************)
(* C8                                                                      *)
(***************************************************************************)
\* C8: the name of a returned Field is, for a quoted name, the characters
\* between its two quotes and, for a bare name, the identifier after the
\* dot.
C8_NameUnquoted ==
  ReturnedOk =>
    /\ Len(result.value) = Len(Kept(pairs))
    /\ \A k \in 1..Len(result.value) :
         LET n == NameNode(Kept(pairs)[k])
             nm == result.value[k].name
         IN  /\ nm = SubSeq(input, n.start + 1, n.end)
             /\ n.rule \in {"name", "quoted_name"}
             /\ n.rule = "quoted_name" =>
                  /\ input[n.start] = Quote
                  /\ input[n.end + 1] = Quote
                  /\ input[n.start - 1] = Dot
                  /\ \A c \in 1..Len(nm) : nm[c] # Quote
             /\ n.rule = "name" =>
                  /\ input[n.start] = Dot
                  /\ \A c \in 1..Len(nm) : nm[c] \in NameRest
                  /\ n.end < Len(input) => input[n.end + 1] \notin NameRest

C8_Witness ==
  /\ ReturnedOk
  /\ input = <<Dot, Quote, Dot, "q", Quote>>
  /\ result.value =
       <<[name |-> <<Dot, "q">>, labels |-> <<>>, index |-> None]>>

(***************************************************************************)
(* C9                                                                      *)
(***************************************************************************)
\* the pairs among the first n whose reduced name is empty: a segment with
\* an empty quoted name, or the end-of-input token
EmptyNamed(ps, n) ==
  {i \in 1..n : ps[i].rule # "segment" \/ NameNode(ps[i]).text = <<>>}

\* C9: every Field pushed or returned has a non-empty name; a segment whose
\* name is empty adds no Field and does not end the call with an error.
C9_NoEmptyName ==
  /\ \A k \in 1..Len(fields) : fields[k].name # <<>>
  /\ pc = "pairs" =>
       /\ Len(fields) = (pi - 1) - Cardinality(EmptyNamed(pairs, pi - 1))
       /\ result = NoResult
  /\ ReturnedOk =>
       /\ \A k \in 1..Len(result.value) : result.value[k].name # <<>>
       /\ Len(result.value) =
            Len(pairs) - Cardinality(EmptyNamed(pairs, Len(pairs)))

\* .a."" returns the Field of .a alone
C9_Witness ==
  /\ ReturnedOk
  /\ input = <<Dot, "a", Dot, Quote, Quote>>
  /\ Len(Segments(pairs)) = 2
  /\ Len(result.value) = 1

(***************************************************************************)
(* C10                                                                     *)
(***************************************************************************)
\* C10: with several in-range index qualifiers on one segment the call
\* succeeds and the Field's index is the last one written; a segment
\* without an index qualifier gets None whatever the segments before it
\* carried.
C10_LastIndexWins ==
  /\ (Returned /\ pairs # <<>>
        /\ \A k \in 1..Len(IndexNodes(pairs)) :
             ~Overflows(IndexNodes(pairs)[k]))
       => result.kind = "Ok"
  /\ ReturnedOk =>
       /\ Len(result.value) = Len(Kept(pairs))
       /\ \A k \in 1..Len(result.value) :
            IsLastIndex(result.value[k].index, Kept(pairs)[k])

C10_Witness ==
  /\ ReturnedOk
  /\ input = <<Dot, "a", LBracket, "1", RBracket,
               LBracket, "9", "9", RBracket>>
  /\ result.value =
       <<[name |-> <<"a">>, labels |-> <<>>, index |-> Some(Usize(99))]>>

====
